---- MODULE Spec2Model ----
(***************************************************************************)
(* Barcode localisation of src/mser/mser.py: the rotated bounding box of   *)
(* a blob (_get_bounding_box), the bar filter, clustering and cluster      *)
(* validation of find_barcodes, and BarcodeRect (json, extract_from).      *)
(*                                                                         *)
(* Numbers.  Pixel coordinates and extents that cv2 returns as floats are  *)
(* integers counted in 1/Scale pixel.  Angles in degrees are integers.     *)
(* Angles in radians are integers counted in pi/Pi, so that np.pi is Pi    *)
(* units and pi/180 * angle is exact.  A quotient the code forms with "/"  *)
(* is kept as a fraction <<numerator, denominator>>.                       *)
(*                                                                         *)
(* Collaborators.  cv2.MSER and cv2.minAreaRect give, per blob, a raw      *)
(* rectangle (img.blobs); DBSCAN gives the labels (dbscan); minAreaRect of *)
(* a cluster's merged corners gives the macro rectangle (macro).  They are *)
(* deterministic functions of the image and are drawn with it in Init.     *)
(***************************************************************************)
EXTENDS Integers, Sequences, FiniteSets

VARIABLES
    img,            \* the image: [shape |-> <<rows, cols, channels>>, blobs |-> raw rectangles]
    dbscan,         \* DBSCAN(min_samples=5, eps=0.1).fit(X).labels_ for this image
    macro,          \* label -> cv2.minAreaRect of the cluster's merged corner points
    rng_pos,        \* draws made so far from the process-wide np.random state
    pc,             \* position in find_barcodes: "idle", "filtered", "loop"
    debug,          \* the debug argument of the running call
    blobs,          \* find_barcodes: blobs after the filter
    bar_boxes,      \* find_barcodes: bar_boxes after the filter
    X,              \* _cluster_bars: the feature matrix handed to DBSCAN
    clusters,       \* find_barcodes: list of Cluster(number, count, color)
    cluster_idx,    \* find_barcodes: label per bar
    cluster_boxes,  \* find_barcodes: one row per cluster, zeros unless accepted
    results,        \* find_barcodes: list of BarcodeRect built so far
    idx,            \* find_barcodes: loop index into clusters (1-based)
    plot,           \* << >> or <<what plt.scatter last showed>>
    window,         \* << >> or <<what cv2.imshow last showed>>
    returned,       \* debug flag -> << >> (not called) or <<the list returned>>
    self,           \* the BarcodeRect a caller built: << >> or <<rect>>
    json_out,       \* what self.json() returned: << >> or <<mapping>>
    crop_origin,    \* extract_from: << >> or <<(x, y) after clamping>>
    crop,           \* extract_from: << >> or <<shape of the returned crop>>
    raw,            \* << >> or <<last rectangle handed to _get_bounding_box on its own>>
    box,            \* << >> or <<what _get_bounding_box returned for it>>
    prev_raw,       \* the rectangle before raw
    prev_box        \* and its box

vars == <<img, dbscan, macro, rng_pos, pc, debug, blobs, bar_boxes, X, clusters,
          cluster_idx, cluster_boxes, results, idx, plot, window, returned,
          self, json_out, crop_origin, crop, raw, box, prev_raw, prev_box>>

pipeline_vars == <<img, dbscan, macro, rng_pos, pc, debug, blobs, bar_boxes, X,
                   clusters, cluster_idx, cluster_boxes, results, idx, plot,
                   window, returned>>
rect_vars == <<self, json_out, crop_origin, crop>>
box_vars == <<raw, box, prev_raw, prev_box>>

(***************************************************************************)
(* Bounds and number representation                                        *)
(***************************************************************************)
MaxBlobs == 2       \* at most this many blobs in an image
Scale == 2          \* sub-pixel resolution: stored lengths are in 1/Scale pixel

Pi == 360           \* np.pi, in the radian unit pi/360
MARGIN == 5
Channels == 3       \* a BGR image, as cv2.COLOR_BGR2GRAY requires
HEIGHT_RATIO == 10

Abs(n) == IF n < 0 THEN -n ELSE n
Max(a, b) == IF a > b THEN a ELSE b
Min(a, b) == IF a < b THEN a ELSE b
SetMax(S) == CHOOSE m \in S : \A n \in S : n <= m

\* np.ceil of a stored (1/Scale pixel) non-negative length, in whole pixels
Ceil(v) == (v + Scale - 1) \div Scale
\* int() of the fraction n/d, d > 0: truncation towards zero
Trunc(n, d) == IF n >= 0 THEN n \div d ELSE -((-n) \div d)
\* equality of two fractions with positive denominators
RatEq(p, q) == p[1] * q[2] = q[1] * p[2]

RECURSIVE SumSeq(_)
SumSeq(s) == IF s = << >> THEN 0 ELSE Head(s) + SumSeq(Tail(s))

RECURSIVE SelectIdx(_, _, _)
\* the entries of s at the positions i..Len(s) where keep is TRUE, in order
SelectIdx(s, keep, i) ==
    IF i > Len(s) THEN << >>
    ELSE (IF keep[i] THEN <<s[i]>> ELSE << >>) \o SelectIdx(s, keep, i + 1)

(***************************************************************************)
(* colors and the shared random state (np.random.seed(0))                  *)
(***************************************************************************)
colors == << <<43, 43, 200>>, <<43, 106, 200>>, <<43, 169, 200>>, <<43, 200, 163>>,
             <<43, 200, 101>>, <<54, 200, 43>>, <<116, 200, 43>>, <<179, 200, 43>>,
             <<200, 153, 43>>, <<200, 90, 43>>, <<200, 43, 64>>, <<200, 43, 127>>,
             <<200, 43, 190>>, <<142, 43, 200>>, <<80, 43, 200>> >>

\* np.random.choice(len(colors)) after np.random.seed(0): the n-th draw (0-based
\* index into colors) of the Mersenne twister seeded with 0, low four bits,
\* values above 14 rejected.  Sixteen draws are listed; a run of the model
\* makes at most two calls of at most MaxBlobs draws each.
ChoiceStream == <<12, 5, 0, 3, 11, 3, 7, 9, 3, 5, 2, 4, 7, 6, 8, 8>>
RandomChoice(pos) == ChoiceStream[(pos % Len(ChoiceStream)) + 1]

(***************************************************************************)
(* _get_bounding_box                                                       *)
(***************************************************************************)
\* rect is cv2.minAreaRect(coords): cx, cy = rect[0], w, h = rect[1], a = rect[2].
\* rho = center_x*cos(theta) + center_y*sin(theta) is kept as its three
\* arguments, and cv2.boxPoints(rect) as the rectangle it is computed from;
\* no code reads rho, and the corners are read only by cv2.minAreaRect.
get_bounding_box_noswapmod(rect) ==
    LET swap == rect.w > rect.h
        width == IF swap THEN rect.h ELSE rect.w
        height == IF swap THEN rect.w ELSE rect.h
        angle == IF swap THEN rect.a - 90 ELSE ((rect.a + 90) % 180) - 90
        theta == (Pi * angle) \div 180
    IN  [center |-> <<rect.cx, rect.cy>>, size |-> <<width, height>>,
         theta |-> theta, rho |-> <<rect.cx, rect.cy, theta>>, corners |-> rect]

_get_bounding_box(rect) ==
    LET swap == rect.w > rect.h
        width == IF swap THEN rect.h ELSE rect.w
        height == IF swap THEN rect.w ELSE rect.h
        angle == IF swap THEN (rect.a % 180) - 90 ELSE ((rect.a + 90) % 180) - 90
        theta == (Pi * angle) \div 180
    IN  [center |-> <<rect.cx, rect.cy>>, size |-> <<width, height>>,
         theta |-> theta, rho |-> <<rect.cx, rect.cy, theta>>, corners |-> rect]

\* a row of np.zeros((n, 7, 2))
ZeroBox == [center |-> <<0, 0>>, size |-> <<0, 0>>, theta |-> 0, rho |-> <<0, 0, 0>>,
            corners |-> [cx |-> 0, cy |-> 0, w |-> 0, h |-> 0, a |-> 0]]

(***************************************************************************)
(* BarcodeRect                                                             *)
(***************************************************************************)
\* BarcodeRect.__init__
BarcodeRect(center_x, center_y, width, height, theta) ==
    [center_x |-> center_x, center_y |-> center_y, width |-> width,
     height |-> height, theta |-> theta]

(***************************************************************************)
(* find_barcodes: the bar filter                                           *)
(***************************************************************************)
\* numpy's a / b under np.errstate(divide="ignore"), a >= 0 and b >= 0:
\* x/0 is inf for x > 0 and 0/0 is nan; neither raises.
Divide(a, b) ==
    IF b = 0
    THEN (IF a = 0 THEN [kind |-> "nan"] ELSE [kind |-> "inf"])
    ELSE [kind |-> "num", num |-> a, den |-> b]

\* numpy's q > t for an integer t: inf > t, and no comparison with nan holds
GreaterThan(q, t) ==
    CASE q.kind = "inf" -> TRUE
      [] q.kind = "nan" -> FALSE
      [] OTHER -> q.num > t * q.den

filter_height_ratio_ge(boxes) ==
    [i \in 1..Len(boxes) |->
        LET q == Divide(boxes[i].size[2], boxes[i].size[1])
        IN  GreaterThan(q, HEIGHT_RATIO) \/ (q.kind = "num" /\ q.num = HEIGHT_RATIO * q.den)]

\* np.where(bar_boxes[:, 1, 1] / bar_boxes[:, 1, 0] > 10), as a mask
filter_height_ratio(boxes) ==
    [i \in 1..Len(boxes) |->
        GreaterThan(Divide(boxes[i].size[2], boxes[i].size[1]), HEIGHT_RATIO)]

\* the boxes of all detected blobs (the loop over blobs.shape[0])
AllBoxes(blob_rects) ==
    [i \in 1..Len(blob_rects) |-> _get_bounding_box(blob_rects[i])]

no_bars_never(boxes) == FALSE

\* len(bar_boxes) == 0
no_bars(boxes) == Len(boxes) = 0

(***************************************************************************)
(* _cluster_bars                                                           *)
(***************************************************************************)
cluster_features_rawheight(boxes, img_size) ==
    [i \in 1..Len(boxes) |->
        <<boxes[i].theta,
          <<boxes[i].size[2], Scale>>,
          <<boxes[i].center[1], Scale * img_size>>,
          <<boxes[i].center[2], Scale * img_size>> >>]

\* X = np.transpose([thetas, heights, center_x, center_y]); a stored length v
\* is v/Scale pixel, so v / img_size is the fraction v / (Scale * img_size)
cluster_features(boxes, img_size) ==
    [i \in 1..Len(boxes) |->
        <<boxes[i].theta,
          <<boxes[i].size[2], Scale * img_size>>,
          <<boxes[i].center[1], Scale * img_size>>,
          <<boxes[i].center[2], Scale * img_size>> >>]

\* max(img.shape)
img_size_of(shape) == SetMax({shape[i] : i \in 1..Len(shape)})

RECURSIVE UniqueFrom(_, _, _)
\* np.unique(labels): the distinct labels from v up to hi, ascending
UniqueFrom(labels, v, hi) ==
    IF v > hi THEN << >>
    ELSE (IF \E i \in 1..Len(labels) : labels[i] = v THEN <<v>> ELSE << >>)
         \o UniqueFrom(labels, v + 1, hi)

unique(labels) == UniqueFrom(labels, -1, Len(labels) - 1)

\* members of a cluster, ascending: np.where(cluster_idx == number)
Members(labels, number) ==
    SelectIdx([i \in 1..Len(labels) |-> i],
              [i \in 1..Len(labels) |-> labels[i] = number], 1)

\* how many of numbers[1..j-1] are not noise: the draws made before numbers[j]
DrawsBefore(numbers, j) == Cardinality({k \in 1..(j - 1) : numbers[k] # -1})

\* the loop "for number, count in zip(numbers, counts)", starting at draw pos
make_clusters(labels, pos) ==
    LET numbers == unique(labels)
    IN  [j \in 1..Len(numbers) |->
            [number |-> numbers[j],
             count |-> Len(Members(labels, numbers[j])),
             color |-> IF numbers[j] = -1 THEN <<0, 0, 0>>
                       ELSE colors[RandomChoice(pos + DrawsBefore(numbers, j)) + 1]]]

\* the color of the cluster with this number (color_dict of _plot_clustering_space)
ColorOf(cls, number) ==
    (CHOOSE c \in {cls[j] : j \in 1..Len(cls)} : c.number = number).color

\* _plot_clustering_space(thetas, heights, clusters, cluster_idx)
_plot_clustering_space(feat, cls, labels) ==
    [i \in 1..Len(feat) |->
        [x |-> feat[i][1], y |-> feat[i][2], c |-> ColorOf(cls, labels[i])]]

(***************************************************************************)
(* find_barcodes: cluster validation                                       *)
(***************************************************************************)
\* np.mean of the member bars' theta, as the fraction sum / count
mean_bar_theta(boxes, labels, number) ==
    LET m == Members(labels, number)
    IN  <<SumSeq([k \in 1..Len(m) |-> boxes[m[k]].theta]), Len(m)>>

orientation_rejected_le(theta, mean) ==
    4 * Abs(mean[2] * theta - mean[1]) <= mean[2] * Pi

\* abs(box[2, 0] - mean_bar_theta) < np.pi / 4, both sides times 4 * count
orientation_rejected(theta, mean) ==
    4 * Abs(mean[2] * theta - mean[1]) < mean[2] * Pi

theta_degrees_nomod(theta) == ((theta * 180) \div Pi) - 90

\* (box[2, 0] * 180 / np.pi + 180) % 180 - 90
theta_degrees(theta) == ((((theta * 180) \div Pi) + 180) % 180) - 90

\* the BarcodeRect built from an accepted macro box
rect_of_box(b) ==
    BarcodeRect(b.center[1], b.center[2], Ceil(b.size[2]), Ceil(b.size[1]),
                theta_degrees(b.theta))

\* _colorize_clusters: every blob painted in the color of its cluster
_colorize_clusters(bl, cls, labels) ==
    [i \in 1..Len(bl) |-> [blob |-> bl[i], color |-> ColorOf(cls, labels[i])]]

\* _draw_cluster_boxes: the contour of every row of cluster_boxes
_draw_cluster_boxes(cboxes) == [i \in 1..Len(cboxes) |-> cboxes[i].corners]

(***************************************************************************)
(* BarcodeRect.json and BarcodeRect.extract_from                           *)
(***************************************************************************)
json(r) ==
    [center_x |-> r.center_y, center_y |-> r.center_y, width |-> r.width,
     height |-> r.height, theta |-> r.theta]

crop_start_nomin(center, width, extent) ==
    Max(0, Trunc(2 * center - Scale * width, 2 * Scale))

\* x = int(self.center_x - width / 2); x = min(img.shape[1], max(0, x)):
\* center is stored in 1/Scale pixel, so center - width/2 is the fraction
\* (2*center - Scale*width) / (2*Scale); extent is img.shape[1] or img.shape[0]
crop_start(center, width, extent) ==
    Min(extent, Max(0, Trunc(2 * center - Scale * width, 2 * Scale)))

crop_extent_abs(n, start, length) == Max(0, Min(length, n) - Min(start, n))

\* the length of a[start : start + length] for an axis of n entries,
\* start >= 0 and length >= 0
crop_extent(n, start, length) == Max(0, Min(start + length, n) - Min(start, n))

(***************************************************************************)
(* The images, rectangles and collaborator answers the model draws from    *)
(***************************************************************************)
Rect(cx, cy, w, h, a) == [cx |-> cx, cy |-> cy, w |-> w, h |-> h, a |-> a]

\* img.shape of the images: rows, columns, channels
Shapes == {<<48, 64, Channels>>, <<64, 48, Channels>>}

\* cv2.minAreaRect of a blob: a thin upright bar (ratio 15); a bar reported
\* lying down (width > height); a box of ratio exactly 10; a one pixel wide
\* line (width 0); a single point (0 by 0)
BlobRects == { Rect(20, 40, 4, 60, 0), Rect(30, 40, 60, 4, -80),
               Rect(40, 40, 6, 60, 0), Rect(50, 40, 0, 98, -90),
               Rect(60, 40, 0, 0, 0) }

\* cv2.minAreaRect of a cluster's corners: a wide box at angle 0 (reported
\* width > height), and a tall box turned by 45 degrees
MacroRects == { Rect(35, 40, 121, 61, 0), Rect(35, 41, 61, 121, 45) }

BlobSeqs == UNION {[1..n -> BlobRects] : n \in 0..MaxBlobs}

\* the label vectors DBSCAN can return for n points: -1 for noise, and the
\* clusters numbered 0, 1, ... without a gap
Labelings(n) ==
    {l \in [1..n -> -1..(n - 1)] :
        \A j \in 1..(n - 1) :
            (\E i \in 1..n : l[i] = j) => (\E i \in 1..n : l[i] = j - 1)}

\* how many blobs of the image are bars
NumBars(blob_rects) ==
    Len(SelectIdx(blob_rects, filter_height_ratio(AllBoxes(blob_rects)), 1))

\* BarcodeRect values a caller may build (center in 1/Scale pixel)
RectPool ==
    {BarcodeRect(cx, cy, w, h, t) :
        cx \in {5, 60, 200}, cy \in {7, 60, 200}, w \in {0, 10, 51},
        h \in {0, 11, 30}, t \in {-90, 0}}

\* raw rectangles handed to _get_bounding_box on its own
RawAngles == {-270, -180, -135, -91, -90, -89, -45, -1, 0, 1, 45, 89, 90, 91,
              135, 180}
RawRects == {Rect(20, 40, w, h, a) : w \in {0, 4, 60}, h \in {0, 4, 60}, a \in RawAngles}

(***************************************************************************)
(* Initial states                                                          *)
(***************************************************************************)
IdlePipeline ==
    /\ rng_pos = 0
    /\ pc = "idle"
    /\ debug = FALSE
    /\ blobs = << >>
    /\ bar_boxes = << >>
    /\ X = << >>
    /\ clusters = << >>
    /\ cluster_idx = << >>
    /\ cluster_boxes = << >>
    /\ results = << >>
    /\ idx = 0
    /\ plot = << >>
    /\ window = << >>
    /\ returned = [d \in BOOLEAN |-> << >>]

NoRect == self = << >> /\ json_out = << >> /\ crop_origin = << >> /\ crop = << >>

NoBox == raw = << >> /\ box = << >> /\ prev_raw = << >> /\ prev_box = << >>

DefaultMacro == Rect(35, 40, 121, 61, 0)

\* an image with its blobs, and the collaborators' answers for it
Init ==
    /\ img \in {[shape |-> s, blobs |-> b] : s \in Shapes, b \in BlobSeqs}
    /\ dbscan \in Labelings(NumBars(img.blobs))
    /\ macro \in {m \in [0..(MaxBlobs - 1) -> MacroRects] :
                    \A j \in 0..(MaxBlobs - 1) :
                        (\A i \in 1..Len(dbscan) : dbscan[i] # j) => m[j] = DefaultMacro}
    /\ IdlePipeline
    /\ NoRect
    /\ NoBox

(***************************************************************************)
(* find_barcodes                                                           *)
(***************************************************************************)
ResetLocals ==
    /\ blobs' = << >>
    /\ bar_boxes' = << >>
    /\ X' = << >>
    /\ clusters' = << >>
    /\ cluster_idx' = << >>
    /\ cluster_boxes' = << >>
    /\ results' = << >>
    /\ idx' = 0

\* lines 186-207: detect the blobs, box each, keep the bars.  A caller asks
\* once with each value of debug.
Detect(d) ==
    /\ pc = "idle"
    /\ returned[d] = << >>
    /\ LET boxes == AllBoxes(img.blobs)
           keep == filter_height_ratio(boxes)
       IN  /\ blobs' = SelectIdx(img.blobs, keep, 1)
           /\ bar_boxes' = SelectIdx(boxes, keep, 1)
    /\ debug' = d
    /\ pc' = "filtered"
    /\ UNCHANGED <<img, dbscan, macro, rng_pos, X, clusters, cluster_idx,
                   cluster_boxes, results, idx, plot, window, returned>>
    /\ UNCHANGED <<rect_vars, box_vars>>

\* lines 209-212: no bars found, return []
NoBars ==
    /\ pc = "filtered"
    /\ no_bars(bar_boxes)
    /\ returned' = [returned EXCEPT ![debug] = << << >> >>]
    /\ pc' = "idle"
    /\ ResetLocals
    /\ UNCHANGED <<img, dbscan, macro, rng_pos, debug, plot, window>>
    /\ UNCHANGED <<rect_vars, box_vars>>

\* lines 214-219: _cluster_bars(bar_boxes, max(img.shape), plot=debug), then
\* cluster_boxes = zeros and results = []
ClusterBars ==
    /\ pc = "filtered"
    /\ ~no_bars(bar_boxes)
    /\ LET feat == cluster_features(bar_boxes, img_size_of(img.shape))
           labels == dbscan
           cls == make_clusters(labels, rng_pos)
       IN  /\ X' = feat
           /\ cluster_idx' = labels
           /\ clusters' = cls
           /\ rng_pos' = rng_pos + DrawsBefore(unique(labels), Len(cls) + 1)
           /\ plot' = IF debug THEN <<_plot_clustering_space(feat, cls, labels)>>
                      ELSE plot
           /\ cluster_boxes' = [j \in 1..Len(cls) |-> ZeroBox]
    /\ results' = << >>
    /\ idx' = 1
    /\ pc' = "loop"
    /\ UNCHANGED <<img, dbscan, macro, debug, blobs, bar_boxes, window, returned>>
    /\ UNCHANGED <<rect_vars, box_vars>>

\* the macro box of the cluster the loop is at (lines 224-226)
MacroBox == _get_bounding_box(macro[clusters[idx].number])

\* lines 221-222: the noise cluster is skipped
SkipNoise ==
    /\ pc = "loop"
    /\ idx <= Len(clusters)
    /\ clusters[idx].number = -1
    /\ idx' = idx + 1
    /\ UNCHANGED <<img, dbscan, macro, rng_pos, pc, debug, blobs, bar_boxes, X,
                   clusters, cluster_idx, cluster_boxes, results, plot, window,
                   returned>>
    /\ UNCHANGED <<rect_vars, box_vars>>

\* lines 224-235: the macro box is not across the bars, the cluster is ignored
RejectCluster ==
    /\ pc = "loop"
    /\ idx <= Len(clusters)
    /\ clusters[idx].number # -1
    /\ orientation_rejected(MacroBox.theta,
            mean_bar_theta(bar_boxes, cluster_idx, clusters[idx].number))
    /\ idx' = idx + 1
    /\ UNCHANGED <<img, dbscan, macro, rng_pos, pc, debug, blobs, bar_boxes, X,
                   clusters, cluster_idx, cluster_boxes, results, plot, window,
                   returned>>
    /\ UNCHANGED <<rect_vars, box_vars>>

\* lines 224-247: the cluster is a barcode
AcceptCluster ==
    /\ pc = "loop"
    /\ idx <= Len(clusters)
    /\ clusters[idx].number # -1
    /\ ~orientation_rejected(MacroBox.theta,
            mean_bar_theta(bar_boxes, cluster_idx, clusters[idx].number))
    /\ cluster_boxes' = [cluster_boxes EXCEPT ![idx] = MacroBox]
    /\ results' = Append(results, rect_of_box(MacroBox))
    /\ idx' = idx + 1
    /\ UNCHANGED <<img, dbscan, macro, rng_pos, pc, debug, blobs, bar_boxes, X,
                   clusters, cluster_idx, plot, window, returned>>
    /\ UNCHANGED <<rect_vars, box_vars>>

Finish_debug_empty ==
    /\ pc = "loop"
    /\ idx > Len(clusters)
    /\ window' = IF debug
                 THEN <<[image |-> _colorize_clusters(blobs, clusters, cluster_idx),
                         boxes |-> _draw_cluster_boxes(cluster_boxes)]>>
                 ELSE window
    /\ returned' = [returned EXCEPT ![debug] = IF debug THEN << << >> >> ELSE <<results>>]
    /\ pc' = "idle"
    /\ ResetLocals
    /\ UNCHANGED <<img, dbscan, macro, rng_pos, debug, plot>>
    /\ UNCHANGED <<rect_vars, box_vars>>

\* lines 249-256: the debug drawing, and return results
Finish ==
    /\ pc = "loop"
    /\ idx > Len(clusters)
    /\ window' = IF debug
                 THEN <<[image |-> _colorize_clusters(blobs, clusters, cluster_idx),
                         boxes |-> _draw_cluster_boxes(cluster_boxes)]>>
                 ELSE window
    /\ returned' = [returned EXCEPT ![debug] = <<results>>]
    /\ pc' = "idle"
    /\ ResetLocals
    /\ UNCHANGED <<img, dbscan, macro, rng_pos, debug, plot>>
    /\ UNCHANGED <<rect_vars, box_vars>>

Next ==
    \/ \E d \in BOOLEAN : Detect(d)
    \/ NoBars
    \/ ClusterBars
    \/ SkipNoise
    \/ RejectCluster
    \/ AcceptCluster
    \/ Finish

Spec == Init /\ [][Next]_vars

(***************************************************************************)
(* A caller building a BarcodeRect and using it                            *)
(***************************************************************************)
InitRect ==
    /\ img \in {[shape |-> s, blobs |-> << >>] : s \in Shapes}
    /\ dbscan = << >>
    /\ macro = [j \in 0..(MaxBlobs - 1) |-> DefaultMacro]
    /\ IdlePipeline
    /\ NoRect
    /\ NoBox

\* BarcodeRect(center_x, center_y, width, height, theta)
Construct(r) ==
    /\ self' = <<r>>
    /\ json_out' = << >>
    /\ crop_origin' = << >>
    /\ crop' = << >>
    /\ UNCHANGED <<pipeline_vars, box_vars>>

\* self.json()
Json ==
    /\ self # << >>
    /\ json_out' = <<json(self[1])>>
    /\ UNCHANGED <<self, crop_origin, crop, pipeline_vars, box_vars>>

\* self.extract_from(img): rotated has the shape of img (dsize is
\* (img.shape[1], img.shape[0])), cropped = rotated[y : y + height, x : x + width]
ExtractFrom ==
    /\ self # << >>
    /\ LET width == self[1].width + MARGIN
           height == self[1].height + MARGIN
           x == crop_start(self[1].center_x, width, img.shape[2])
           y == crop_start(self[1].center_y, height, img.shape[1])
       IN  /\ crop_origin' = << <<x, y>> >>
           /\ crop' = <<[rows |-> crop_extent(img.shape[1], y, height),
                         cols |-> crop_extent(img.shape[2], x, width)]>>
    /\ UNCHANGED <<self, json_out, pipeline_vars, box_vars>>

NextRect ==
    \/ \E r \in RectPool : Construct(r)
    \/ Json
    \/ ExtractFrom

SpecRect == InitRect /\ [][NextRect]_vars

(***************************************************************************)
(* _get_bounding_box on its own, over all raw rectangles                   *)
(***************************************************************************)
InitBox ==
    /\ img = [shape |-> <<48, 64, Channels>>, blobs |-> << >>]
    /\ dbscan = << >>
    /\ macro = [j \in 0..(MaxBlobs - 1) |-> DefaultMacro]
    /\ IdlePipeline
    /\ NoRect
    /\ NoBox

BoundingBox(r) ==
    /\ prev_raw' = raw
    /\ prev_box' = box
    /\ raw' = <<r>>
    /\ box' = <<_get_bounding_box(r)>>
    /\ UNCHANGED <<pipeline_vars, rect_vars>>

NextBox == \E r \in RawRects : BoundingBox(r)

SpecBox == InitBox /\ [][NextBox]_vars

(***************************************************************************)
(* Properties                                                              *)
(***************************************************************************)
RECURSIVE SetSum(_, _)
\* the sum of f[i] over the i of a finite set S
SetSum(f, S) ==
    IF S = {} THEN 0
    ELSE LET i == CHOOSE j \in S : TRUE IN f[i] + SetSum(f, S \ {i})

\* C1: the mapping json returns holds the rectangle's own five fields,
\* center_x for center_x and center_y for center_y, unchanged.
C1_JsonFieldForField ==
    json_out # << >> =>
        json_out[1] = [center_x |-> self[1].center_x, center_y |-> self[1].center_y,
                       width |-> self[1].width, height |-> self[1].height,
                       theta |-> self[1].theta]

\* C2: once find_barcodes has returned for debug=True and for debug=False on
\* the same image, the two returned lists are equal, entry by entry.
C2_DebugDoesNotChangeResults ==
    (returned[TRUE] # << >> /\ returned[FALSE] # << >>) =>
        returned[TRUE][1] = returned[FALSE][1]

\* both calls returned a non-empty list, the debug call drew its window, and
\* the two calls drew different colors from the shared random state
C2_Witness ==
    /\ returned[TRUE] # << >>
    /\ returned[FALSE] # << >>
    /\ returned[TRUE][1] # << >>
    /\ window # << >>
    /\ plot # << >>
    /\ rng_pos > 1

\* the accepted rows of cluster_boxes, in order
AcceptedRows ==
    SelectIdx(cluster_boxes, [j \in 1..Len(cluster_boxes) |-> cluster_boxes[j] # ZeroBox], 1)

\* C3: every BarcodeRect built or returned has theta in [-90, 90) degrees, and
\* it is ((macro_theta*180/pi + 180) mod 180) - 90 for the macro box it was
\* built from.
C3_ThetaDegreesRange ==
    /\ \A i \in 1..Len(results) : results[i].theta >= -90 /\ results[i].theta < 90
    /\ \A d \in BOOLEAN :
          returned[d] # << >> =>
              \A i \in 1..Len(returned[d][1]) :
                  returned[d][1][i].theta >= -90 /\ returned[d][1][i].theta < 90
    /\ pc = "loop" =>
          /\ Len(results) = Len(AcceptedRows)
          /\ \A i \in 1..Len(results) :
                /\ 2 * AcceptedRows[i].theta >= -Pi
                /\ 2 * AcceptedRows[i].theta < Pi
                /\ results[i].theta =
                      ((((AcceptedRows[i].theta * 180) \div Pi) + 180) % 180) - 90

\* a rectangle was built from a macro box at the boundary theta = -pi/2, which
\* _get_bounding_box reached on its swapped branch
C3_Witness ==
    /\ pc = "loop"
    /\ \E j \in 1..Len(cluster_boxes) :
          /\ cluster_boxes[j] # ZeroBox
          /\ 2 * cluster_boxes[j].theta = -Pi
          /\ cluster_boxes[j].corners.w > cluster_boxes[j].corners.h
    /\ results # << >>

\* C4: with no bar left after the filter, the next step of find_barcodes is
\* the return of the empty list; clustering and validation are reached only
\* with at least one bar.
C4_NoBarsShortCircuit ==
    /\ [](pc = "loop" => bar_boxes # << >>)
    /\ [][(pc = "filtered" /\ bar_boxes = << >>) =>
            (pc' = "idle" /\ returned'[debug] = << << >> >> /\ X' = << >>
             /\ clusters' = << >> /\ rng_pos' = rng_pos)]_vars

\* find_barcodes returned [] for an image that has blobs, none of them a bar
C4_Witness ==
    /\ pc = "idle"
    /\ img.blobs # << >>
    /\ NumBars(img.blobs) = 0
    /\ \E d \in BOOLEAN : returned[d] = << << >> >>

ExcludesZeroWidth(b) == b.size[1] # 0 /\ b.size[2] > 10 * b.size[1]

\* C5, as claimed: the boxes kept are those with height/width > 10, a box of
\* width zero being dropped.
C5_ZeroWidthExcluded ==
    pc = "filtered" => bar_boxes = SelectSeq(AllBoxes(img.blobs), ExcludesZeroWidth)

RetainedByRatio(b) ==
    \/ b.size[1] > 0 /\ b.size[2] > 10 * b.size[1]
    \/ b.size[1] = 0 /\ b.size[2] > 0

\* C5, amended: the boxes kept are those with positive width and
\* height/width > 10, and those with width zero and positive height (the
\* ratio is +inf); a box of width zero and height zero (nan) is dropped.
C5_FilterRetainsRatioAbove10 ==
    pc = "filtered" =>
        /\ bar_boxes = SelectSeq(AllBoxes(img.blobs), RetainedByRatio)
        /\ blobs = [i \in 1..Len(bar_boxes) |-> bar_boxes[i].corners]

\* the filter ran on an image with a box of width zero, which it kept, and a
\* box of ratio exactly 10, which it dropped
C5_Witness ==
    /\ pc = "filtered"
    /\ \E i \in 1..Len(bar_boxes) : bar_boxes[i].size[1] = 0
    /\ \E i \in 1..Len(img.blobs) :
          /\ img.blobs[i].w > 0
          /\ img.blobs[i].h = 10 * img.blobs[i].w
          /\ \A k \in 1..Len(blobs) : blobs[k] # img.blobs[i]

\* the bars of the cluster at position j
BarsOf(j) == {i \in 1..Len(cluster_idx) : cluster_idx[i] = clusters[j].number}

\* 4 * count * |macro theta - mean bar theta| for the cluster at position j
Deviation4(j) ==
    LET S == BarsOf(j)
        n == Cardinality(S)
        sum == SetSum([i \in 1..Len(bar_boxes) |-> bar_boxes[i].theta], S)
    IN  4 * Abs(n * _get_bounding_box(macro[clusters[j].number]).theta - sum)

\* the macro box differs from the bars' mean theta by at least pi/4
AcrossBars(j) == Deviation4(j) >= Cardinality(BarsOf(j)) * Pi

\* C6: of the clusters the loop has passed, those that are not noise and whose
\* macro box differs from the mean bar theta by at least pi/4 have their macro
\* box in cluster_boxes and one BarcodeRect each in results; the others (noise,
\* or closer than pi/4) leave their row zero and add nothing.
C6_OrientationValidation ==
    pc = "loop" =>
        /\ \A j \in 1..Len(clusters) :
              IF j < idx /\ clusters[j].number # -1 /\ AcrossBars(j)
              THEN cluster_boxes[j] = _get_bounding_box(macro[clusters[j].number])
              ELSE cluster_boxes[j] = ZeroBox
        /\ Len(results) =
              Cardinality({j \in 1..(idx - 1) : clusters[j].number # -1 /\ AcrossBars(j)})

\* the loop has passed a cluster at exactly 90 degrees (accepted), one at
\* exactly 45 degrees (accepted) or one closer than 45 degrees (rejected),
\* and the noise cluster
C6_Witness ==
    /\ pc = "loop"
    /\ idx > Len(clusters)
    /\ \E j \in 1..Len(clusters) : clusters[j].number = -1
    /\ \E j \in 1..Len(clusters) :
          /\ clusters[j].number # -1
          /\ Deviation4(j) = 2 * Cardinality(BarsOf(j)) * Pi
          /\ cluster_boxes[j] # ZeroBox
    /\ Len(results) = 1

\* C6, second case: one cluster accepted at exactly pi/4 and one rejected
C6_WitnessThreshold ==
    /\ pc = "loop"
    /\ idx > Len(clusters)
    /\ \E j \in 1..Len(clusters) :
          clusters[j].number # -1 /\ Deviation4(j) = Cardinality(BarsOf(j)) * Pi
    /\ \E j \in 1..Len(clusters) :
          clusters[j].number # -1 /\ ~AcrossBars(j)

\* C7, as claimed: the crop origin lies in [0, image_width) x [0, image_height).
C7_OriginHalfOpen ==
    crop_origin # << >> =>
        /\ 0 <= crop_origin[1][1] /\ crop_origin[1][1] < img.shape[2]
        /\ 0 <= crop_origin[1][2] /\ crop_origin[1][2] < img.shape[1]

\* C7, amended: the crop origin lies in [0, image_width] x [0, image_height],
\* both ends included.
C7_OriginClosed ==
    crop_origin # << >> =>
        /\ 0 <= crop_origin[1][1] /\ crop_origin[1][1] <= img.shape[2]
        /\ 0 <= crop_origin[1][2] /\ crop_origin[1][2] <= img.shape[1]

\* extract_from ran on a rectangle centred beyond the right border, and the
\* origin was clamped to image_width
C7_Witness ==
    /\ crop_origin # << >>
    /\ self[1].center_x > Scale * img.shape[2]
    /\ crop_origin[1][1] = img.shape[2]

\* the window of (width+5, height+5) around the center lies inside the image
Unclamped ==
    /\ 2 * self[1].center_x - Scale * (self[1].width + 5) >= 0
    /\ 2 * self[1].center_x + Scale * (self[1].width + 5) <= 2 * Scale * img.shape[2]
    /\ 2 * self[1].center_y - Scale * (self[1].height + 5) >= 0
    /\ 2 * self[1].center_y + Scale * (self[1].height + 5) <= 2 * Scale * img.shape[1]

\* C8: the crop has at most width+5 columns and height+5 rows, and exactly
\* that many when the window lies inside the image.
C8_CropSize ==
    crop # << >> =>
        /\ crop[1].cols <= self[1].width + 5
        /\ crop[1].rows <= self[1].height + 5
        /\ Unclamped =>
              (crop[1].cols = self[1].width + 5 /\ crop[1].rows = self[1].height + 5)

\* extract_from ran on a rectangle whose window lies inside the image, away
\* from the origin
C8_Witness ==
    /\ crop # << >>
    /\ Unclamped
    /\ crop_origin[1][1] > 0
    /\ crop_origin[1][2] > 0
    /\ self[1].width > 0
    /\ self[1].height > 0

\* the larger of the image's width and height
LargerSide == Max(img.shape[1], img.shape[2])

\* C9, as claimed: the feature vector of a bar is (theta, height, center_x/D,
\* center_y/D), D the larger of the image's width and height.
C9_HeightAsIs ==
    \A i \in 1..Len(X) :
        /\ X[i][1] = bar_boxes[i].theta
        /\ RatEq(X[i][2], <<bar_boxes[i].size[2], Scale>>)
        /\ RatEq(X[i][3], <<bar_boxes[i].center[1], Scale * LargerSide>>)
        /\ RatEq(X[i][4], <<bar_boxes[i].center[2], Scale * LargerSide>>)

\* C9, amended: the feature vector of a bar is (theta, height/D, center_x/D,
\* center_y/D), D the larger of the image's width and height.
C9_FeaturesScaled ==
    /\ Len(X) = (IF pc = "loop" THEN Len(bar_boxes) ELSE 0)
    /\ \A i \in 1..Len(X) :
          /\ X[i][1] = bar_boxes[i].theta
          /\ RatEq(X[i][2], <<bar_boxes[i].size[2], Scale * LargerSide>>)
          /\ RatEq(X[i][3], <<bar_boxes[i].center[1], Scale * LargerSide>>)
          /\ RatEq(X[i][4], <<bar_boxes[i].center[2], Scale * LargerSide>>)

\* the features of two bars were built, for an image wider than high
C9_Witness ==
    /\ pc = "loop"
    /\ Len(X) = 2
    /\ X[1][2][1] > 0
    /\ img.shape[2] > img.shape[1]

\* C10: a box built by _get_bounding_box has width <= height and theta in
\* [-pi/2, pi/2); its dimensions are the raw ones, swapped when the raw width
\* exceeds the raw height; and two raw rectangles that differ only by a
\* multiple of 180 degrees in their angle get the same theta.
C10_BoxInvariant ==
    box # << >> =>
        /\ box[1].size[1] <= box[1].size[2]
        /\ 2 * box[1].theta >= -Pi
        /\ 2 * box[1].theta < Pi
        /\ box[1].size = (IF raw[1].w > raw[1].h THEN <<raw[1].h, raw[1].w>>
                          ELSE <<raw[1].w, raw[1].h>>)
        /\ (/\ prev_raw # << >>
            /\ prev_raw[1].w = raw[1].w
            /\ prev_raw[1].h = raw[1].h
            /\ (raw[1].a - prev_raw[1].a) % 180 = 0) => box[1].theta = prev_box[1].theta

\* two boxes of the swapped branch whose raw angles differ by 180 degrees
C10_Witness ==
    /\ box # << >>
    /\ prev_raw # << >>
    /\ raw[1].w > raw[1].h
    /\ prev_raw[1].w = raw[1].w
    /\ prev_raw[1].h = raw[1].h
    /\ raw[1].a = prev_raw[1].a + 180
    /\ 2 * box[1].theta = -Pi

====
